---- MODULE Spec2Model ----
(***************************************************************************)
(* Model of the manofwar media server: the handler built by                *)
(* web.NewMediaHandler (src/internal/web/handler.go) and its mount on the  *)
(* default mux (src/cmd/server/main.go).                                   *)
(*                                                                         *)
(* Strings that the code inspects (URL paths, file names, extensions) are  *)
(* sequences of one-character strings, so that TrimPrefix, Join/Clean and  *)
(* Ext are computed the way the code computes them.  File contents are     *)
(* sequences of characters as well.  A modification time is a pair         *)
(* <<seconds, nanoseconds>>; the zero time is <<0, 0>>.                     *)
(*                                                                         *)
(* handler.go as written shadows package filepath with a local string      *)
(* (line 17) and calls file.ModTime() on an *os.File (line 42); the model  *)
(* follows the evident meaning: filepath.Ext(filename) and the             *)
(* modification time reported by the opened file's Stat.                   *)
(***************************************************************************)
EXTENDS Integers, Sequences, FiniteSets, TLC

VARIABLES fs, platform, inv, openFiles, proc

vars == <<fs, platform, inv, openFiles, proc>>

(***************************************************************************)
(* Bounds of the model.                                                    *)
(***************************************************************************)
\* Bytes moved by one step of the copy loop (io.CopyN's buffer, scaled down).
ChunkSize == 4

(***************************************************************************)
(* String helpers.                                                         *)
(***************************************************************************)
HasPrefix(s, p) == Len(s) >= Len(p) /\ SubSeq(s, 1, Len(p)) = p

HasSuffix(s, p) == Len(s) >= Len(p) /\ SubSeq(s, Len(s) - Len(p) + 1, Len(s)) = p

\* strings.TrimPrefix: s without the leading p, or s unchanged.
TrimPrefix(s, p) == IF HasPrefix(s, p) THEN SubSeq(s, Len(p) + 1, Len(s)) ELSE s

\* The "/"-separated elements of s, empty elements included.
RECURSIVE SplitFrom(_, _, _)
SplitFrom(s, i, cur) ==
    IF i > Len(s) THEN <<cur>>
    ELSE IF s[i] = "/" THEN <<cur>> \o SplitFrom(s, i + 1, <<>>)
    ELSE SplitFrom(s, i + 1, Append(cur, s[i]))

Split(s) == SplitFrom(s, 1, <<>>)

\* The lexical processing of Clean on the elements of a rooted path: empty
\* elements and "." are dropped, ".." removes the element before it and is
\* dropped at the root.
RECURSIVE CleanElems(_, _)
CleanElems(elems, stack) ==
    IF elems = <<>> THEN stack
    ELSE LET e == Head(elems) IN
         IF e = <<>> \/ e = <<".">> THEN CleanElems(Tail(elems), stack)
         ELSE IF e = <<".", ".">>
              THEN CleanElems(Tail(elems),
                              IF stack = <<>> THEN stack
                              ELSE SubSeq(stack, 1, Len(stack) - 1))
              ELSE CleanElems(Tail(elems), Append(stack, e))

RECURSIVE JoinElems(_)
JoinElems(elems) ==
    IF elems = <<>> THEN <<>>
    ELSE <<"/">> \o Head(elems) \o JoinElems(Tail(elems))

\* filepath.Clean / path.Clean of a rooted path.
Clean(p) ==
    LET elems == CleanElems(Split(p), <<>>) IN
    IF elems = <<>> THEN <<"/">> ELSE JoinElems(elems)

\* filepath.Join(dir, name) for a non-empty dir: Clean(dir + "/" + name).
Join(dir, name) == Clean(dir \o <<"/">> \o name)

\* filepath.Ext: the suffix starting at the last dot of the last element.
RECURSIVE ExtFrom(_, _)
ExtFrom(path, i) ==
    IF i < 1 \/ path[i] = "/" THEN <<>>
    ELSE IF path[i] = "." THEN SubSeq(path, i, Len(path))
    ELSE ExtFrom(path, i - 1)

Ext(path) == ExtFrom(path, Len(path))

(***************************************************************************)
(* The server's configuration and the files it can see.                    *)
(***************************************************************************)
\* The prefix the handler strips from the URL path: "/media/".
MediaPrefix == <<"/", "m", "e", "d", "i", "a", "/">>

\* The pattern the handler is registered under on the default mux: "/media/".
MuxPattern == <<"/", "m", "e", "d", "i", "a", "/">>

\* The absolute root directory handed to NewMediaHandler: "/srv/media".
MediaDir == <<"/", "s", "r", "v", "/", "m", "e", "d", "i", "a">>

NoNode == [kind |-> "none", data |-> <<>>, mtime |-> <<0, 0>>, readable |-> FALSE]

Dir(mt) == [kind |-> "dir", data |-> <<>>, mtime |-> mt, readable |-> TRUE]

File(d, mt, r) == [kind |-> "file", data |-> d, mtime |-> mt, readable |-> r]

\* The paths of the file system, as Clean produces them.
P_root == <<"/", "s", "r", "v", "/", "m", "e", "d", "i", "a">>
P_test == <<"/", "s", "r", "v", "/", "m", "e", "d", "i", "a", "/", "t", "e", "s", "t", ".", "t", "x", "t">>
P_axyz == <<"/", "s", "r", "v", "/", "m", "e", "d", "i", "a", "/", "a", ".", "x", "y", "z">>
P_raw == <<"/", "s", "r", "v", "/", "m", "e", "d", "i", "a", "/", "r", "a", "w">>
P_locked == <<"/", "s", "r", "v", "/", "m", "e", "d", "i", "a", "/", "p", ".", "t", "x", "t">>
P_empty == <<"/", "s", "r", "v", "/", "m", "e", "d", "i", "a", "/", "e", ".", "t", "x", "t">>
P_sub == <<"/", "s", "r", "v", "/", "m", "e", "d", "i", "a", "/", "s", "u", "b">>
P_png == <<"/", "s", "r", "v", "/", "m", "e", "d", "i", "a", "/", "s", "u", "b", "/", "b", ".", "p", "n", "g">>
P_vdir == <<"/", "s", "r", "v", "/", "m", "e", "d", "i", "a", "/", "v", ".", "1">>
P_vraw == <<"/", "s", "r", "v", "/", "m", "e", "d", "i", "a", "/", "v", ".", "1", "/", "r", "a", "w">>
P_key == <<"/", "s", "r", "v", "/", "k", "e", "y", ".", "t", "x", "t">>
P_srv == <<"/", "s", "r", "v">>

HelloWorld == <<"H", "e", "l", "l", "o", " ", "W", "o", "r", "l", "d">>

\* The file system the server runs on.  /srv/key.txt lies outside the root;
\* /srv/media/p.txt exists but may not be read by the server's user;
\* /srv/media/v.1/raw is stamped with the Unix epoch (<<0, 0>>).
BaseFS ==
    (P_root :> Dir(<<3, 0>>)) @@
    (P_test :> File(HelloWorld, <<5, 500>>, TRUE)) @@
    (P_axyz :> File(<<"a", "b", "c">>, <<5, 0>>, TRUE)) @@
    (P_raw :> File(<<"x", "y">>, <<4, 500>>, TRUE)) @@
    (P_locked :> File(<<"n", "o">>, <<5, 0>>, FALSE)) @@
    (P_empty :> File(<<>>, <<5, 0>>, TRUE)) @@
    (P_sub :> Dir(<<4, 0>>)) @@
    (P_png :> File(<<"P", "N", "G">>, <<4, 0>>, TRUE)) @@
    (P_vdir :> Dir(<<4, 0>>)) @@
    (P_vraw :> File(<<"v">>, <<0, 0>>, TRUE)) @@
    (P_key :> File(<<"K", "E", "Y">>, <<5, 0>>, TRUE)) @@
    (P_srv :> Dir(<<3, 0>>)) @@
    (<<"/">> :> Dir(<<3, 0>>))

\* The node a cleaned absolute path names in file system f.
Lookup(f, p) == IF p \in DOMAIN f THEN f[p] ELSE NoNode

\* Whether path p lies beneath (or is) directory dir, both cleaned.
Beneath(p, dir) == p = dir \/ HasPrefix(p, dir \o <<"/">>)

(***************************************************************************)
(* Requests.                                                               *)
(***************************************************************************)
Methods == {"GET", "HEAD", "POST"}

\* The URL paths requests are drawn from.
U_test == <<"/", "m", "e", "d", "i", "a", "/", "t", "e", "s", "t", ".", "t", "x", "t">>
U_axyz == <<"/", "m", "e", "d", "i", "a", "/", "a", ".", "x", "y", "z">>
U_raw == <<"/", "m", "e", "d", "i", "a", "/", "r", "a", "w">>
U_missing == <<"/", "m", "e", "d", "i", "a", "/", "n", "o", ".", "t", "x", "t">>
U_locked == <<"/", "m", "e", "d", "i", "a", "/", "p", ".", "t", "x", "t">>
U_empty == <<"/", "m", "e", "d", "i", "a", "/", "e", ".", "t", "x", "t">>
U_sub == <<"/", "m", "e", "d", "i", "a", "/", "s", "u", "b">>
U_prefix == <<"/", "m", "e", "d", "i", "a", "/">>
U_png == <<"/", "m", "e", "d", "i", "a", "/", "s", "u", "b", "/", "b", ".", "p", "n", "g">>
U_vraw == <<"/", "m", "e", "d", "i", "a", "/", "v", ".", "1", "/", "r", "a", "w">>
U_escape == <<"/", "m", "e", "d", "i", "a", "/", ".", ".", "/", "k", "e", "y", ".", "t", "x", "t">>
U_inside == <<"/", "m", "e", "d", "i", "a", "/", "s", "u", "b", "/", ".", ".", "/", "t", "e", "s", "t", ".", "t", "x", "t">>
U_bare == <<"/", "t", "e", "s", "t", ".", "t", "x", "t">>
U_other == <<"/", "o", "t", "h", "e", "r">>

UrlPaths ==
    {U_test, U_axyz, U_raw, U_missing, U_locked, U_empty, U_sub, U_prefix,
     U_png, U_vraw, U_escape, U_inside, U_bare, U_other}

\* A Range header: absent, "bytes=first-last", "bytes=first-" or "bytes=-n".
NoRange == [kind |-> "none", first |-> 0, last |-> 0]

Span(a, b) == [kind |-> "span", first |-> a, last |-> b]

From(a) == [kind |-> "from", first |-> a, last |-> 0]

Suffix(n) == [kind |-> "suffix", first |-> 0, last |-> n]

RangeHeaders ==
    {NoRange, Span(0, 4), Span(100, 200), Span(6, 20), Span(5, 2), From(2), Suffix(5)}

\* An If-Modified-Since header: absent (<<>>) or <<seconds>>, an HTTP date.
NoIMS == <<>>

IMSHeaders == {NoIMS, <<0>>, <<4>>, <<5>>}

\* An If-Unmodified-Since header: absent (<<>>) or <<seconds>>, an HTTP date.
NoIUS == <<>>

IUSHeaders == {NoIUS, <<4>>}

\* The requests sent to the server; a request carries at most one of the two
\* conditional headers.
Requests ==
    {r \in [method : Methods, path : UrlPaths, range : RangeHeaders,
            ims : IMSHeaders, ius : IUSHeaders] :
        r.ims = NoIMS \/ r.ius = NoIUS}

(***************************************************************************)
(* Content type resolution (handler.go lines 31-36).                       *)
(***************************************************************************)
E_png == <<".", "p", "n", "g">>
E_html == <<".", "h", "t", "m", "l">>
E_txt == <<".", "t", "x", "t">>

\* mime.TypeByExtension: the built-in table, extended by the system's MIME
\* files where the platform has them.  Types read from the system files get
\* "; charset=utf-8" appended when they are text types.  "" when unknown.
TypeByExtension(ext) ==
    CASE ext = E_png -> "image/png"
      [] ext = E_html -> "text/html; charset=utf-8"
      [] ext = E_txt /\ platform.systemMime -> "text/plain; charset=utf-8"
      [] OTHER -> ""

\* A handler without the default for unknown extensions.
MimeTypeNoDefault(filename) == TypeByExtension(Ext(filename))

\* extension := filepath.Ext(filename); mimeType := mime.TypeByExtension(extension);
\* if mimeType == "" { mimeType = "application/octet-stream" }
MimeType(filename) ==
    LET mimeType == TypeByExtension(Ext(filename)) IN
    IF mimeType = "" THEN "application/octet-stream" ELSE mimeType

(***************************************************************************)
(* Path resolution and open (handler.go lines 16-28).                      *)
(***************************************************************************)
\* A handler that forgets to strip the prefix.
FilenameUntrimmed(urlPath) == urlPath

\* filename := strings.TrimPrefix(r.URL.Path, "/media/")
Filename(urlPath) == TrimPrefix(urlPath, MediaPrefix)

\* filepath := filepath.Join(mediaDir, filename), mediaDir being the root
\* main handed to NewMediaHandler.
ResolvedPath(urlPath) == Join(proc.absMediaDir, Filename(urlPath))

\* os.Open(filepath): "" on success, else the error.  A directory opens for
\* reading like a regular file does.
OpenError(f, p) ==
    LET node == Lookup(f, p) IN
    IF node.kind = "none" THEN "ENOENT"
    ELSE IF ~node.readable THEN "EACCES"
    ELSE ""

\* A handler that tells a forbidden file from a missing one.
OpenErrorStatusByCause(err) == IF err = "EACCES" THEN 403 ELSE 404

\* The status the handler answers an open error with: http.NotFound.
OpenErrorStatus(err) == 404

\* A handler that hands ServeContent the zero time.
ZeroModTime(node) == <<0, 0>>

\* The modification time handed to http.ServeContent.
ModTimeArg(node) == node.mtime

(***************************************************************************)
(* http.ServeContent, as called at handler.go line 42.                     *)
(***************************************************************************)
\* isZeroTime: the zero time or the Unix epoch, both <<0, 0>> here.
IsZeroTime(t) == t = <<0, 0>>

\* modtime.Truncate(time.Second)
Truncate(t) == <<t[1], 0>>

TimeLE(a, b) == a[1] < b[1] \/ (a[1] = b[1] /\ a[2] <= b[2])

\* The HTTP date of a time: whole seconds.
HTTPDate(t) == <<t[1]>>

\* checkIfModifiedSince: "none" (not applicable), "false" (not modified
\* since: answer 304) or "true".
CheckIfModifiedSince(req, modtime) ==
    IF req.method \notin {"GET", "HEAD"} THEN "none"
    ELSE IF req.ims = NoIMS \/ IsZeroTime(modtime) THEN "none"
    ELSE IF TimeLE(Truncate(modtime), <<req.ims[1], 0>>) THEN "false"
    ELSE "true"

\* checkIfUnmodifiedSince: "none" (not applicable), "true" or "false"
\* (modified since: answer 412), for any method.
CheckIfUnmodifiedSince(req, modtime) ==
    IF req.ius = NoIUS \/ IsZeroTime(modtime) THEN "none"
    ELSE IF TimeLE(Truncate(modtime), <<req.ius[1], 0>>) THEN "true"
    ELSE "false"

Min(a, b) == IF a < b THEN a ELSE b

\* A range parser that ignores a range starting beyond the content.
ParseRangeIgnoreBeyond(r, size) ==
    IF r.kind \in {"from", "span"} /\ r.first < size /\ (r.kind = "from" \/ r.first <= r.last)
    THEN [err |-> "", ranged |-> TRUE, start |-> r.first,
          length |-> IF r.kind = "from" THEN size - r.first
                     ELSE Min(r.last, size - 1) - r.first + 1]
    ELSE [err |-> "", ranged |-> FALSE, start |-> 0, length |-> size]

\* A range parser that counts a range "first-last" one byte short.
ParseRangeOneShort(r, size) ==
    CASE r.kind = "none" ->
           [err |-> "", ranged |-> FALSE, start |-> 0, length |-> size]
      [] r.kind = "suffix" ->
           [err |-> "", ranged |-> TRUE,
            start |-> size - Min(r.last, size), length |-> Min(r.last, size)]
      [] r.kind = "from" ->
           IF r.first >= size
           THEN [err |-> "nooverlap", ranged |-> FALSE, start |-> 0, length |-> 0]
           ELSE [err |-> "", ranged |-> TRUE,
                 start |-> r.first, length |-> size - r.first]
      [] r.kind = "span" ->
           IF r.first >= size
           THEN [err |-> "nooverlap", ranged |-> FALSE, start |-> 0, length |-> 0]
           ELSE IF r.first > r.last
           THEN [err |-> "invalid", ranged |-> FALSE, start |-> 0, length |-> 0]
           ELSE [err |-> "", ranged |-> TRUE, start |-> r.first,
                 length |-> Min(r.last, size - 1) - r.first]

\* parseRange for a header of at most one range, against a content of `size`
\* bytes: err is "" (ranged tells whether a range was given), "nooverlap" or
\* "invalid".
ParseRange(r, size) ==
    CASE r.kind = "none" ->
           [err |-> "", ranged |-> FALSE, start |-> 0, length |-> size]
      [] r.kind = "suffix" ->
           [err |-> "", ranged |-> TRUE,
            start |-> size - Min(r.last, size), length |-> Min(r.last, size)]
      [] r.kind = "from" ->
           IF r.first >= size
           THEN [err |-> "nooverlap", ranged |-> FALSE, start |-> 0, length |-> 0]
           ELSE [err |-> "", ranged |-> TRUE,
                 start |-> r.first, length |-> size - r.first]
      [] r.kind = "span" ->
           IF r.first >= size
           THEN [err |-> "nooverlap", ranged |-> FALSE, start |-> 0, length |-> 0]
           ELSE IF r.first > r.last
           THEN [err |-> "invalid", ranged |-> FALSE, start |-> 0, length |-> 0]
           ELSE [err |-> "", ranged |-> TRUE, start |-> r.first,
                 length |-> Min(r.last, size - 1) - r.first + 1]

\* content.Seek(0, io.SeekEnd): the size of a regular file; on a directory
\* the platform either refuses the seek (-1 here) or reports some size.
SeekEnd(node) ==
    IF node.kind = "dir"
    THEN IF platform.dirSeekFails THEN -1 ELSE 4096
    ELSE Len(node.data)

\* What an error reply (http.Error) looks like.
ErrorReply(code, text) ==
    [status |-> code, ctype |-> "text/plain; charset=utf-8", contentRange |-> <<>>,
     contentLength |-> -1, msg |-> text, sendFrom |-> 0, sendSize |-> 0]

\* The headers and status ServeContent writes for request req on the opened
\* node, with modification time modtime and the Content-Type header already
\* set to ctype; sendFrom and sendSize tell what remains to be copied.
ServeContentHead(req, node, modtime, ctype) ==
    LET size == SeekEnd(node)
        ra == ParseRange(req.range, size)
    IN
    IF CheckIfUnmodifiedSince(req, modtime) = "false"
    THEN \* checkPreconditions: WriteHeader(StatusPreconditionFailed)
         [status |-> 412, ctype |-> ctype, contentRange |-> <<>>,
          contentLength |-> -1, msg |-> "", sendFrom |-> 0, sendSize |-> 0]
    ELSE IF CheckIfModifiedSince(req, modtime) = "false"
    THEN \* writeNotModified deletes Content-Type and Content-Length
         [status |-> 304, ctype |-> "", contentRange |-> <<>>,
          contentLength |-> -1, msg |-> "", sendFrom |-> 0, sendSize |-> 0]
    ELSE IF size < 0
    THEN ErrorReply(500, "seeker can't seek")
    ELSE IF ra.err = "nooverlap" /\ size # 0
    THEN [ErrorReply(416, "invalid range: failed to overlap")
            EXCEPT !.contentRange = <<"*", size>>]
    ELSE IF ra.err = "invalid"
    THEN ErrorReply(416, "invalid range")
    ELSE IF ra.err = "" /\ ra.ranged
    THEN [status |-> 206, ctype |-> ctype,
          contentRange |-> <<ra.start, ra.start + ra.length - 1, size>>,
          contentLength |-> ra.length, msg |-> "",
          sendFrom |-> ra.start, sendSize |-> ra.length]
    ELSE [status |-> 200, ctype |-> ctype, contentRange |-> <<>>,
          contentLength |-> size, msg |-> "", sendFrom |-> 0, sendSize |-> size]

(***************************************************************************)
(* main (src/cmd/server/main.go): flags, environment, root directory,      *)
(* registration of the handler, listener.                                  *)
(***************************************************************************)
\* The defaults of the two flags: "8080" and "./media".
DefaultPort == "8080"

DefaultMediaDir == <<".", "/", "m", "e", "d", "i", "a">>

\* A flag or an environment variable: given (set) with a value, or not.
Given(v) == [set |-> TRUE, val |-> v]

NotGiven(empty) == [set |-> FALSE, val |-> empty]

D_data == <<"/", "d", "a", "t", "a">>

\* The working directory the process is started in.
Cwd == <<"/", "s", "r", "v">>

\* How the process is launched: the two flags, the two environment
\* variables (unset, set to the empty string, or set to a value), whether
\* the working directory can be determined, and the ports already in use.
Launches ==
    [portFlag : {NotGiven(""), Given("8081")},
     dirFlag : {NotGiven(<<>>), Given(MediaDir)},
     SERVER_PORT : {NotGiven(""), Given(""), Given("9000")},
     MEDIA_DIR : {NotGiven(<<>>), Given(<<>>), Given(D_data)},
     cwdOK : BOOLEAN,
     busy : {{}, {"8080"}, {"9000"}}]

\* The launch without flags or variables, in a working directory of which
\* "./media" is the root MediaDir.
DefaultLaunch ==
    [portFlag |-> NotGiven(""), dirFlag |-> NotGiven(<<>>),
     SERVER_PORT |-> NotGiven(""), MEDIA_DIR |-> NotGiven(<<>>),
     cwdOK |-> TRUE, busy |-> {}]

\* The value of a flag after flag.Parse: the given value, or the default.
FlagValue(f, default) == IF f.set THEN f.val ELSE default

\* os.Getenv: the value of the variable, the empty string when it is unset.
Getenv(v, empty) == IF v.set THEN v.val ELSE empty

\* A main that takes a variable whenever it is set, the empty value too.
EnvOverrideWhenSet(flagValue, v, empty) == IF v.set THEN v.val ELSE flagValue

\* if env := os.Getenv(NAME); env != "" { *flag = env }
EnvOverride(flagValue, v, empty) ==
    LET env == Getenv(v, empty) IN
    IF env # empty THEN env ELSE flagValue

\* filepath.Abs: an absolute path is cleaned; a relative one is joined onto
\* the working directory, which fails when that cannot be determined.
Abs(p, cwdOK) ==
    IF p # <<>> /\ p[1] = "/" THEN [err |-> FALSE, path |-> Clean(p)]
    ELSE IF ~cwdOK THEN [err |-> TRUE, path |-> <<>>]
    ELSE [err |-> FALSE, path |-> Join(Cwd, p)]

\* The process as main starts: nothing parsed, nothing registered.
StartProc(l) ==
    [pc |-> "flags", launch |-> l, port |-> "", mediaDir |-> <<>>,
     absMediaDir |-> <<>>, registered |-> FALSE, exitCode |-> 0, fatal |-> ""]

\* The process serving, launched by DefaultLaunch.
ServingProc ==
    [pc |-> "serving", launch |-> DefaultLaunch, port |-> DefaultPort,
     mediaDir |-> DefaultMediaDir, absMediaDir |-> MediaDir,
     registered |-> TRUE, exitCode |-> 0, fatal |-> ""]

\* log.Fatal / log.Fatalf: the message is logged and the process exits
\* with status 1.
Fatal(text) ==
    proc' = [proc EXCEPT !.pc = "exited", !.exitCode = 1, !.fatal = text]

(***************************************************************************)
(* The state: one record per handler invocation slot, and the table of     *)
(* open file handles.                                                      *)
(***************************************************************************)
\* The number of invocation slots of the state.
MaxInv == 2

Slots == 1 .. MaxInv

\* The slots that take requests when requests are served one at a time.
Sequential == {1}

NoReq == [method |-> "", path |-> <<>>, range |-> NoRange, ims |-> NoIMS,
          ius |-> NoIUS]

\* pc: "idle", then "open" (path resolved and logged), "mime" (file open),
\* "serve" (Content-Type set), "copy" (status written, body being copied),
\* "close" (ServeContent returned), "done" (the invocation has returned).
\* status 0: no status written yet.  contentLength -1: header not set.
\* steps: the steps the invocation has taken, in order.
IdleSlot ==
    [pc |-> "idle", via |-> "", req |-> NoReq, filename |-> <<>>, path |-> <<>>,
     logged |-> <<>>, file |-> 0, status |-> 0, ctype |-> "",
     contentRange |-> <<>>, contentLength |-> -1, body |-> <<>>, msg |-> "",
     sendLeft |-> 0, disconnected |-> FALSE, steps |-> <<>>]

Init ==
    /\ fs = BaseFS
    /\ platform \in [systemMime : BOOLEAN, dirSeekFails : BOOLEAN]
    /\ inv = [i \in Slots |-> IdleSlot]
    /\ openFiles = <<>>
    /\ proc = ServingProc

Free(i) == inv[i].pc = "idle"

\* The handles slot i holds open.
HandlesOf(i) == {fd \in DOMAIN openFiles : openFiles[fd].owner = i}

\* A handler that keeps one descriptor and hands it to every invocation.
SharedFd == CHOOSE fd \in 1 .. 1 : TRUE

\* The lowest descriptor not in use.
NextFd == CHOOSE fd \in 1 .. (Cardinality(DOMAIN openFiles) + 1) :
              fd \notin DOMAIN openFiles

\* A handler that answers 400 to a URL path without the prefix.
EnterPrefixRequired(i, r, how) ==
    inv' = [inv EXCEPT ![i] =
               IF HasPrefix(r.path, MediaPrefix)
               THEN [IdleSlot EXCEPT !.pc = "open", !.via = how, !.req = r,
                                     !.filename = Filename(r.path),
                                     !.path = ResolvedPath(r.path),
                                     !.logged = ResolvedPath(r.path),
                                     !.steps = <<"resolve", "log">>]
               ELSE [IdleSlot EXCEPT !.pc = "done", !.via = how, !.req = r,
                                     !.filename = r.path,
                                     !.path = ResolvedPath(r.path),
                                     !.status = 400,
                                     !.steps = <<"notfound">>]]

\* A handler that answers 405 to every method but GET and HEAD.
EnterGetOnly(i, r, how) ==
    inv' = [inv EXCEPT ![i] =
               IF r.method \in {"GET", "HEAD"}
               THEN [IdleSlot EXCEPT !.pc = "open", !.via = how, !.req = r,
                                     !.filename = Filename(r.path),
                                     !.path = ResolvedPath(r.path),
                                     !.logged = ResolvedPath(r.path),
                                     !.steps = <<"resolve", "log">>]
               ELSE [IdleSlot EXCEPT !.pc = "done", !.via = how, !.req = r,
                                     !.path = ResolvedPath(r.path),
                                     !.status = 405,
                                     !.steps = <<"notfound">>]]

\* A handler that resolves the path but does not log it.
EnterWithoutLog(i, r, how) ==
    inv' = [inv EXCEPT ![i] =
               [IdleSlot EXCEPT !.pc = "open", !.via = how, !.req = r,
                                !.filename = Filename(r.path),
                                !.path = ResolvedPath(r.path),
                                !.steps = <<"resolve">>]]

\* Lines 16-20: the handler is entered with request r; it strips the
\* prefix, joins the rest onto the root and logs the resolved path.
Enter(i, r, how) ==
    inv' = [inv EXCEPT ![i] =
               [IdleSlot EXCEPT !.pc = "open", !.via = how, !.req = r,
                                !.filename = Filename(r.path),
                                !.path = ResolvedPath(r.path),
                                !.logged = ResolvedPath(r.path),
                                !.steps = <<"resolve", "log">>]]

\* A reply that the mux writes itself, without entering the handler.
MuxReply(i, r, code, text) ==
    inv' = [inv EXCEPT ![i] =
               [IdleSlot EXCEPT !.pc = "done", !.via = "mux", !.req = r,
                                !.status = code, !.msg = text,
                                !.steps = <<"muxreply">>]]

\* The handler function is called with a request of R, as the tests call
\* it.
HandlerCallOf(i, R) ==
    /\ Free(i)
    /\ \E r \in R : Enter(i, r, "direct")
    /\ UNCHANGED <<fs, platform, openFiles, proc>>

HandlerCall(i) == HandlerCallOf(i, Requests)

\* The mux's cleanPath: Clean, keeping a trailing slash.
CleanPath(p) ==
    LET np == Clean(p) IN
    IF HasSuffix(p, <<"/">>) /\ np # <<"/">> THEN np \o <<"/">> ELSE np

\* main.go lines 33-36: a request of R arrives at the listening process
\* through the default mux, which has the handler registered under
\* "/media/".  The mux redirects a path that is not clean, and answers 404
\* for a path no pattern matches.
MuxServeHTTPOf(i, R) ==
    /\ Free(i)
    /\ proc.pc = "serving" /\ proc.registered
    /\ \E r \in R :
         IF r.path # CleanPath(r.path)
         THEN MuxReply(i, r, 301, "Moved Permanently")
         ELSE IF HasPrefix(r.path, MuxPattern)
         THEN Enter(i, r, "mux")
         ELSE IF r.path \o <<"/">> = MuxPattern
         THEN MuxReply(i, r, 301, "Moved Permanently")
         ELSE MuxReply(i, r, 404, "404 page not found")
    /\ UNCHANGED <<fs, platform, openFiles, proc>>

MuxServeHTTP(i) == MuxServeHTTPOf(i, Requests)

\* A handler that creates the file it does not find (os.OpenFile with
\* O_CREATE) and serves the empty file.
OpenCreating(i) ==
    /\ inv[i].pc = "open"
    /\ openFiles' = (NextFd :> [owner |-> i, path |-> inv[i].path, pos |-> 0])
                        @@ openFiles
    /\ inv' = [inv EXCEPT ![i].pc = "mime", ![i].file = NextFd,
                          ![i].steps = Append(@, "open")]
    /\ fs' = IF inv[i].path \in DOMAIN fs THEN fs
             ELSE (inv[i].path :> File(<<>>, <<9, 0>>, TRUE)) @@ fs
    /\ UNCHANGED <<platform, proc>>

\* A handler that ends the process when the open fails (log.Fatal).
OpenOrDie(i) ==
    /\ inv[i].pc = "open"
    /\ LET err == OpenError(fs, inv[i].path) IN
       IF err = ""
       THEN /\ openFiles' = (NextFd :> [owner |-> i, path |-> inv[i].path, pos |-> 0])
                               @@ openFiles
            /\ inv' = [inv EXCEPT ![i].pc = "mime", ![i].file = NextFd,
                                  ![i].steps = Append(@, "open")]
            /\ UNCHANGED proc
       ELSE /\ inv' = [inv EXCEPT ![i].pc = "done", ![i].steps = Append(@, "open")]
            /\ Fatal(err)
            /\ UNCHANGED openFiles
    /\ UNCHANGED <<fs, platform>>

\* Lines 23-29: os.Open; on an error http.NotFound and return.
Open(i) ==
    /\ inv[i].pc = "open"
    /\ LET err == OpenError(fs, inv[i].path) IN
       IF err = ""
       THEN /\ openFiles' = (NextFd :> [owner |-> i, path |-> inv[i].path, pos |-> 0])
                               @@ openFiles
            /\ inv' = [inv EXCEPT ![i].pc = "mime", ![i].file = NextFd,
                                  ![i].steps = Append(@, "open")]
       ELSE /\ inv' = [inv EXCEPT ![i].pc = "done",
                                  ![i].steps = @ \o <<"open", "notfound">>,
                                  ![i].status = OpenErrorStatus(err),
                                  ![i].ctype = "text/plain; charset=utf-8",
                                  ![i].msg = "404 page not found"]
            /\ UNCHANGED openFiles
    /\ UNCHANGED <<fs, platform, proc>>

\* Lines 31-39: resolve the MIME type and set the Content-Type header.
SetContentType(i) ==
    /\ inv[i].pc = "mime"
    /\ inv' = [inv EXCEPT ![i].pc = "serve", ![i].ctype = MimeType(inv[i].filename),
                          ![i].steps = @ \o <<"mimetype", "header">>]
    /\ UNCHANGED <<fs, platform, openFiles, proc>>

\* A handler that copies the file to the response itself (io.Copy) instead
\* of delegating: always 200 and the whole file.
ServeWithCopy(i) ==
    /\ inv[i].pc = "serve"
    /\ LET node == Lookup(fs, openFiles[inv[i].file].path) IN
       inv' = [inv EXCEPT ![i].pc = IF Len(node.data) > 0 THEN "copy" ELSE "close",
                          ![i].status = 200,
                          ![i].sendLeft = Len(node.data)]
    /\ UNCHANGED <<fs, platform, openFiles, proc>>

\* Line 42: http.ServeContent up to and including WriteHeader; the copy of
\* the body follows unless there is nothing to send.
ServeContent(i) ==
    /\ inv[i].pc = "serve"
    /\ LET node == Lookup(fs, openFiles[inv[i].file].path)
           h == ServeContentHead(inv[i].req, node, ModTimeArg(node), inv[i].ctype)
           send == h.sendSize > 0 /\ inv[i].req.method # "HEAD"
       IN
       /\ inv' = [inv EXCEPT ![i].pc = IF send THEN "copy" ELSE "close",
                             ![i].status = h.status,
                             ![i].ctype = h.ctype,
                             ![i].contentRange = h.contentRange,
                             ![i].contentLength = h.contentLength,
                             ![i].msg = h.msg,
                             ![i].sendLeft = IF send THEN h.sendSize ELSE 0,
                             ![i].steps = Append(@, "serve")]
       /\ openFiles' = [openFiles EXCEPT ![inv[i].file].pos = h.sendFrom]
    /\ UNCHANGED <<fs, platform, proc>>

\* The furthest position of the handles open on path p.
SharedOffset(p) ==
    CHOOSE n \in {openFiles[fd].pos : fd \in {g \in DOMAIN openFiles : openFiles[g].path = p}} :
        \A fd \in DOMAIN openFiles : openFiles[fd].path = p => openFiles[fd].pos <= n

\* A copy loop over handles that share one file offset per path, as the
\* invocations would if the handler kept one open file for all of them.
CopyChunkSharedOffset(i) ==
    /\ inv[i].pc = "copy"
    /\ LET h == openFiles[inv[i].file]
           node == Lookup(fs, h.path)
           pos == SharedOffset(h.path)
           n == Min(ChunkSize, Min(inv[i].sendLeft, Len(node.data) - pos))
       IN
       IF inv[i].disconnected \/ node.kind # "file" \/ n <= 0
       THEN /\ inv' = [inv EXCEPT ![i].pc = "close"]
            /\ UNCHANGED openFiles
       ELSE /\ inv' = [inv EXCEPT
                         ![i].body = @ \o SubSeq(node.data, pos + 1, pos + n),
                         ![i].sendLeft = @ - n,
                         ![i].pc = IF inv[i].sendLeft = n THEN "close" ELSE "copy"]
            /\ openFiles' = [openFiles EXCEPT ![inv[i].file].pos = pos + n]
    /\ UNCHANGED <<fs, platform, proc>>

\* A copy loop that ignores failed writes and reads on to the end of what
\* it was to send.
CopyChunkIgnoringWriteError(i) ==
    /\ inv[i].pc = "copy"
    /\ LET h == openFiles[inv[i].file]
           node == Lookup(fs, h.path)
           n == Min(ChunkSize, Min(inv[i].sendLeft, Len(node.data) - h.pos))
       IN
       IF node.kind # "file" \/ n <= 0
       THEN /\ inv' = [inv EXCEPT ![i].pc = "close"]
            /\ UNCHANGED openFiles
       ELSE /\ inv' = [inv EXCEPT
                         ![i].body = IF inv[i].disconnected THEN @
                                     ELSE @ \o SubSeq(node.data, h.pos + 1, h.pos + n),
                         ![i].sendLeft = @ - n,
                         ![i].pc = IF inv[i].sendLeft = n THEN "close" ELSE "copy"]
            /\ openFiles' = [openFiles EXCEPT ![inv[i].file].pos = @ + n]
    /\ UNCHANGED <<fs, platform, proc>>

\* One round of io.CopyN: read up to ChunkSize bytes from the handle and
\* write them to the client.  A failed write (the client is gone) or a
\* failed read (the handle is a directory) ends the copy.
CopyChunk(i) ==
    /\ inv[i].pc = "copy"
    /\ LET h == openFiles[inv[i].file]
           node == Lookup(fs, h.path)
           n == Min(ChunkSize, Min(inv[i].sendLeft, Len(node.data) - h.pos))
       IN
       IF inv[i].disconnected \/ node.kind # "file" \/ n <= 0
       THEN /\ inv' = [inv EXCEPT ![i].pc = "close"]
            /\ UNCHANGED openFiles
       ELSE /\ inv' = [inv EXCEPT
                         ![i].body = @ \o SubSeq(node.data, h.pos + 1, h.pos + n),
                         ![i].sendLeft = @ - n,
                         ![i].pc = IF inv[i].sendLeft = n THEN "close" ELSE "copy"]
            /\ openFiles' = [openFiles EXCEPT ![inv[i].file].pos = @ + n]
    /\ UNCHANGED <<fs, platform, proc>>

\* The client goes away while its request is being handled.
Disconnect(i) ==
    /\ inv[i].pc \in {"open", "mime", "serve", "copy"}
    /\ ~inv[i].disconnected
    /\ inv' = [inv EXCEPT ![i].disconnected = TRUE]
    /\ UNCHANGED <<fs, platform, openFiles, proc>>

\* A handler that returns without closing the file.
ReturnWithoutClose(i) ==
    /\ inv[i].pc = "close"
    /\ inv' = [inv EXCEPT ![i].pc = "done"]
    /\ UNCHANGED <<fs, platform, openFiles, proc>>

\* Line 29: the deferred file.Close() runs as the handler returns.
Close(i) ==
    /\ inv[i].pc = "close"
    /\ openFiles' = [fd \in DOMAIN openFiles \ {inv[i].file} |-> openFiles[fd]]
    /\ inv' = [inv EXCEPT ![i].pc = "done", ![i].steps = Append(@, "close")]
    /\ UNCHANGED <<fs, platform, proc>>

\* The response of a returned invocation has been taken; the slot is free
\* for the next request.
Finish(i) ==
    /\ inv[i].pc = "done"
    /\ inv' = [inv EXCEPT ![i] = IdleSlot]
    /\ UNCHANGED <<fs, platform, openFiles, proc>>

\* Requests are served one at a time.
Next ==
    \/ \E i \in Sequential : HandlerCall(i)
    \/ \E i \in Sequential : MuxServeHTTP(i)
    \/ \E i \in Sequential : Open(i)
    \/ \E i \in Sequential : SetContentType(i)
    \/ \E i \in Sequential : ServeContent(i)
    \/ \E i \in Sequential : CopyChunk(i)
    \/ \E i \in Sequential : Disconnect(i)
    \/ \E i \in Sequential : Close(i)
    \/ \E i \in Sequential : Finish(i)

Spec == Init /\ [][Next]_vars

(***************************************************************************)
(* The steps of main, and the process from its launch on.                  *)
(***************************************************************************)
\* main.go lines 15-17: the flags are declared and parsed.
ParseFlags ==
    /\ proc.pc = "flags"
    /\ proc' = [proc EXCEPT !.pc = "env",
                            !.port = FlagValue(proc.launch.portFlag, DefaultPort),
                            !.mediaDir = FlagValue(proc.launch.dirFlag, DefaultMediaDir)]
    /\ UNCHANGED <<fs, platform, inv, openFiles>>

\* main.go lines 20-25: SERVER_PORT and MEDIA_DIR override the flags.
ReadEnv ==
    /\ proc.pc = "env"
    /\ proc' = [proc EXCEPT !.pc = "abs",
                            !.port = EnvOverride(@, proc.launch.SERVER_PORT, ""),
                            !.mediaDir = EnvOverride(@, proc.launch.MEDIA_DIR, <<>>)]
    /\ UNCHANGED <<fs, platform, inv, openFiles>>

\* A main that goes on with the path as given when filepath.Abs fails.
ResolveRootIgnoringError ==
    /\ proc.pc = "abs"
    /\ proc' = [proc EXCEPT !.pc = "register",
                            !.absMediaDir = Abs(proc.mediaDir, proc.launch.cwdOK).path]
    /\ UNCHANGED <<fs, platform, inv, openFiles>>

\* main.go lines 28-31: filepath.Abs of the root; log.Fatalf on an error.
ResolveRoot ==
    /\ proc.pc = "abs"
    /\ LET a == Abs(proc.mediaDir, proc.launch.cwdOK) IN
       IF a.err THEN Fatal("Invalid media directory")
       ELSE proc' = [proc EXCEPT !.pc = "register", !.absMediaDir = a.path]
    /\ UNCHANGED <<fs, platform, inv, openFiles>>

\* main.go line 33: http.HandleFunc("/media/", web.NewMediaHandler(absMediaDir))
Register ==
    /\ proc.pc = "register"
    /\ proc' = [proc EXCEPT !.pc = "listen", !.registered = TRUE]
    /\ UNCHANGED <<fs, platform, inv, openFiles>>

\* main.go lines 35-36: http.ListenAndServe(":" + port, nil); log.Fatal
\* when the listener cannot bind.
ListenAndServe ==
    /\ proc.pc = "listen"
    /\ IF proc.port \in proc.launch.busy
       THEN Fatal("listen: address already in use")
       ELSE proc' = [proc EXCEPT !.pc = "serving"]
    /\ UNCHANGED <<fs, platform, inv, openFiles>>

\* The requests sent to a process followed from its launch.
MainRequests ==
    {r \in Requests : /\ r.method = "GET" /\ r.path \in {U_test, U_missing}
                      /\ r.range = NoRange /\ r.ims = NoIMS /\ r.ius = NoIUS}

InitMain ==
    /\ fs = BaseFS
    /\ platform \in [systemMime : BOOLEAN, dirSeekFails : BOOLEAN]
    /\ inv = [i \in Slots |-> IdleSlot]
    /\ openFiles = <<>>
    /\ proc \in {StartProc(l) : l \in Launches}

NextMain ==
    \/ ParseFlags
    \/ ReadEnv
    \/ ResolveRoot
    \/ Register
    \/ ListenAndServe
    \/ \E i \in Sequential : MuxServeHTTPOf(i, MainRequests)
    \/ \E i \in Sequential : Open(i)
    \/ \E i \in Sequential : SetContentType(i)
    \/ \E i \in Sequential : ServeContent(i)
    \/ \E i \in Sequential : CopyChunk(i)
    \/ \E i \in Sequential : Disconnect(i)
    \/ \E i \in Sequential : Close(i)
    \/ \E i \in Sequential : Finish(i)

SpecMain == InitMain /\ [][NextMain]_vars

(***************************************************************************)
(* Requests served concurrently: every slot takes requests, and the steps  *)
(* of the invocations interleave.  The clients stay connected.             *)
(***************************************************************************)
ConcRequests ==
    {r \in Requests : /\ r.method = "GET" /\ r.path \in {U_test, U_missing}
                      /\ r.range \in {NoRange, Span(6, 20)}
                      /\ r.ims = NoIMS /\ r.ius = NoIUS}

InitConc ==
    /\ fs = BaseFS
    /\ platform = [systemMime |-> TRUE, dirSeekFails |-> TRUE]
    /\ inv = [i \in Slots |-> IdleSlot]
    /\ openFiles = <<>>
    /\ proc = ServingProc

NextConc ==
    \/ \E i \in Slots : MuxServeHTTPOf(i, ConcRequests)
    \/ \E i \in Slots : Open(i)
    \/ \E i \in Slots : SetContentType(i)
    \/ \E i \in Slots : ServeContent(i)
    \/ \E i \in Slots : CopyChunk(i)
    \/ \E i \in Slots : Close(i)
    \/ \E i \in Slots : Finish(i)

SpecConc == InitConc /\ [][NextConc]_vars

(***************************************************************************)
(* Requests served one at a time by a handler whose steps are eventually   *)
(* taken: the goroutine of a request is scheduled until it returns.  No    *)
(* fairness is assumed of clients (requests, disconnects).                 *)
(***************************************************************************)
HandlerStep(i) ==
    Open(i) \/ SetContentType(i) \/ ServeContent(i) \/ CopyChunk(i) \/ Close(i)

\* The requests whose streaming is followed: with and without a range, for
\* a file of several chunks, an empty file, a directory and a missing file.
StreamRequests ==
    {r \in Requests : /\ r.method \in {"GET", "POST"}
                      /\ r.path \in {U_test, U_empty, U_sub, U_missing}
                      /\ r.range \in {NoRange, Span(0, 4), From(2)}
                      /\ r.ims = NoIMS /\ r.ius = NoIUS}

NextStream ==
    \/ \E i \in Sequential : HandlerCallOf(i, StreamRequests)
    \/ \E i \in Sequential : MuxServeHTTPOf(i, StreamRequests)
    \/ \E i \in Sequential : Open(i)
    \/ \E i \in Sequential : SetContentType(i)
    \/ \E i \in Sequential : ServeContent(i)
    \/ \E i \in Sequential : CopyChunk(i)
    \/ \E i \in Sequential : Disconnect(i)
    \/ \E i \in Sequential : Close(i)
    \/ \E i \in Sequential : Finish(i)

FairSpec ==
    /\ Init
    /\ [][NextStream]_vars
    /\ \A i \in Sequential : WF_vars(HandlerStep(i))

(***************************************************************************)
(* Vocabulary of the properties.                                           *)
(***************************************************************************)
\* Invocation i has returned.
Done(i) == inv[i].pc = "done"

\* The handler was entered for the request of slot i (the mux did not
\* answer it by itself).
Handled(i) == inv[i].path # <<>>

\* The node the path resolved by invocation i names.
Target(i) == Lookup(fs, inv[i].path)

\* The request of slot i carries no Range and no conditional header.
NoHeaders(i) ==
    /\ inv[i].req.range = NoRange
    /\ inv[i].req.ims = NoIMS
    /\ inv[i].req.ius = NoIUS

\* The regular files beneath the root that the server may read.
ServedFiles ==
    {p \in DOMAIN fs : /\ fs[p].kind = "file"
                       /\ fs[p].readable
                       /\ HasPrefix(p, MediaDir \o <<"/">>)}

\* The URL path of file p beneath the root: the prefix, then p relative to
\* the root.
UrlOf(p) == MediaPrefix \o SubSeq(p, Len(MediaDir) + 2, Len(p))

(***************************************************************************)
(* C1 .. C10                                                               *)
(***************************************************************************)

\* C1: for every file present under the root (a regular file the server can
\* read), a GET of <prefix><relative-path> that carries no Range and no
\* conditional header, called on the handler or sent through the mux, and
\* whose client stays connected, returns 200 with a body equal to the
\* file's contents.
C1_GetReturnsFile ==
    \A i \in Slots : \A p \in ServedFiles :
        (/\ Done(i)
         /\ inv[i].req.method = "GET"
         /\ inv[i].req.path = UrlOf(p)
         /\ NoHeaders(i)
         /\ ~inv[i].disconnected)
        => (inv[i].status = 200 /\ inv[i].body = fs[p].data)

\* A GET of /media/test.txt through the mux has returned 200 "Hello World".
C1_Witness ==
    \E i \in Slots :
        /\ Done(i) /\ inv[i].via = "mux" /\ inv[i].req.method = "GET"
        /\ inv[i].req.path = U_test /\ NoHeaders(i) /\ ~inv[i].disconnected
        /\ inv[i].status = 200 /\ inv[i].body = HelloWorld

\* C2: where the platform's MIME table knows .txt, a GET of an existing
\* .txt file that is answered 200 carries a Content-Type header whose value
\* is exactly "text/plain" (the mapped type of the extension of the
\* requested path).
C2_TxtIsExactlyTextPlain ==
    \A i \in Slots :
        (/\ platform.systemMime
         /\ Done(i) /\ inv[i].req.method = "GET" /\ inv[i].status = 200
         /\ inv[i].file # 0 /\ Target(i).kind = "file"
         /\ Ext(inv[i].filename) = E_txt)
        => inv[i].ctype = "text/plain"

\* C3 as amended: for every successfully opened file whose requested name
\* has no extension or one unknown to the mapping, the handler sets
\* Content-Type to application/octet-stream before it delegates, and every
\* response that delivers the file (200 or 206) carries it.
C3_UnknownExtOctetStream ==
    \A i \in Slots :
        (/\ inv[i].file # 0
         /\ TypeByExtension(Ext(inv[i].filename)) = ""
         /\ \/ inv[i].pc = "serve"
            \/ inv[i].pc \in {"copy", "close", "done"} /\ inv[i].status \in {200, 206})
        => inv[i].ctype = "application/octet-stream"

\* /media/raw (no extension) has been delivered as application/octet-stream.
C3_Witness ==
    \E i \in Slots :
        /\ Done(i) /\ inv[i].req.path = U_raw /\ inv[i].status = 200
        /\ inv[i].body = <<"x", "y">>
        /\ inv[i].ctype = "application/octet-stream"

\* C3 as stated: for every successfully opened file whose requested name
\* has no extension or one unknown to the mapping, the response
\* Content-Type is application/octet-stream.
C3_Original ==
    \A i \in Slots :
        (/\ Done(i) /\ inv[i].file # 0 /\ Target(i).kind = "file"
         /\ TypeByExtension(Ext(inv[i].filename)) = "")
        => inv[i].ctype = "application/octet-stream"

\* C4: when the resolved path cannot be opened because the file is missing
\* or may not be read, the handler answers 404, opens no handle and sends
\* no file content; missing and forbidden get the same status.
C4_OpenFailureIs404 ==
    \A i \in Slots :
        (/\ Done(i) /\ Handled(i)
         /\ (Target(i).kind = "none" \/ ~Target(i).readable))
        => (/\ inv[i].status = 404
            /\ inv[i].body = <<>>
            /\ inv[i].file = 0)

\* The unreadable /media/p.txt has been answered 404.
C4_Witness ==
    \E i \in Slots :
        /\ Done(i) /\ inv[i].req.path = U_locked
        /\ Target(i).kind = "file" /\ ~Target(i).readable
        /\ inv[i].status = 404

\* C5: every request whose resolved path is a directory (the root itself
\* included) is answered 404; stated for a GET without Range or conditional
\* headers.
C5_DirectoryIs404 ==
    \A i \in Slots :
        (/\ Done(i) /\ Handled(i) /\ Target(i).kind = "dir"
         /\ inv[i].req.method = "GET" /\ NoHeaders(i))
        => inv[i].status = 404

\* C6: a request whose joined path resolves outside the root is rejected
\* (404 or 400) and no file content is sent; stated for a GET without Range
\* or conditional headers.
C6_TraversalRejected ==
    \A i \in Slots :
        (/\ Done(i) /\ Handled(i) /\ ~Beneath(inv[i].path, MediaDir)
         /\ inv[i].req.method = "GET" /\ NoHeaders(i))
        => (inv[i].status \in {400, 404} /\ inv[i].body = <<>>)

\* C7: a GET with a Range header "bytes=first-last" naming a valid range
\* (first <= last < size) of an existing file, with no conditional header
\* and the client staying connected, returns 206, exactly the bytes
\* first..last, and Content-Range "bytes first-last/size".
C7_ValidRangeIs206 ==
    \A i \in Slots :
        LET r == inv[i].req.range
            d == Target(i).data
        IN
        (/\ Done(i) /\ Handled(i) /\ inv[i].req.method = "GET"
         /\ inv[i].req.ims = NoIMS /\ inv[i].req.ius = NoIUS
         /\ ~inv[i].disconnected
         /\ Target(i).kind = "file" /\ Target(i).readable
         /\ r.kind = "span" /\ r.first <= r.last /\ r.last < Len(d))
        => (/\ inv[i].status = 206
            /\ inv[i].body = SubSeq(d, r.first + 1, r.last + 1)
            /\ inv[i].contentRange = <<r.first, r.last, Len(d)>>)

\* "bytes=0-4" on the 11-byte "Hello World" has returned 206 "Hello" with
\* Content-Range bytes 0-4/11.
C7_Witness ==
    \E i \in Slots :
        /\ Done(i) /\ inv[i].req.method = "GET" /\ inv[i].req.path = U_test
        /\ inv[i].req.range = Span(0, 4)
        /\ inv[i].status = 206
        /\ inv[i].body = <<"H", "e", "l", "l", "o">>
        /\ inv[i].contentRange = <<0, 4, 11>>

\* The request of slot i is a GET of an existing regular file with a Range
\* header whose start offset is at or beyond the file's size, and no
\* conditional header.
StartBeyondSize(i) ==
    /\ Done(i) /\ Handled(i) /\ inv[i].req.method = "GET"
    /\ inv[i].req.ims = NoIMS /\ inv[i].req.ius = NoIUS
    /\ Target(i).kind = "file" /\ Target(i).readable
    /\ inv[i].req.range.kind \in {"span", "from"}
    /\ inv[i].req.range.first >= Len(Target(i).data)

\* C8 as amended: a GET without conditional headers, with a Range header
\* whose start offset is at or beyond the size of a non-empty file, returns
\* 416 and no file content; on an empty file the Range header is ignored
\* and the answer is 200 with an empty body.
C8_StartBeyondSizeIs416 ==
    \A i \in Slots :
        StartBeyondSize(i)
        => /\ inv[i].body = <<>>
           /\ inv[i].status = IF Len(Target(i).data) = 0 THEN 200 ELSE 416

\* "bytes=100-200" on the 11-byte file has returned 416.
C8_Witness ==
    \E i \in Slots :
        /\ StartBeyondSize(i) /\ inv[i].req.path = U_test
        /\ inv[i].req.range = Span(100, 200)
        /\ inv[i].status = 416 /\ inv[i].body = <<>>

\* C8 as stated: a GET with a Range header whose start offset is at or
\* beyond the file's size returns 416 and serves no file content.
C8_Original ==
    \A i \in Slots :
        StartBeyondSize(i) => (inv[i].status = 416 /\ inv[i].body = <<>>)

\* The request of slot i is a GET of an existing regular file with an
\* If-Modified-Since header equal to the file's modification time (as an
\* HTTP date), and no If-Unmodified-Since header.
IMSEqualsModTime(i) ==
    /\ Done(i) /\ Handled(i) /\ inv[i].req.method = "GET"
    /\ inv[i].req.ius = NoIUS
    /\ Target(i).kind = "file" /\ Target(i).readable
    /\ inv[i].req.ims = HTTPDate(Target(i).mtime)

\* C9 as amended: a GET of an existing file whose modification time is not
\* the Unix epoch, with an If-Modified-Since header equal to that time and
\* no If-Unmodified-Since header, returns 304 with an empty body; for a file stamped with the Unix epoch
\* the header is ignored and the answer is never 304.
C9_NotModifiedIs304 ==
    \A i \in Slots :
        IMSEqualsModTime(i)
        => IF Target(i).mtime = <<0, 0>>
           THEN inv[i].status # 304
           ELSE inv[i].status = 304 /\ inv[i].body = <<>> /\ inv[i].msg = ""

\* C9 as stated: a GET of an existing file with an If-Modified-Since header
\* equal to the file's modification time returns 304 with an empty body;
\* stated for a GET without a Range header.
C9_Original ==
    \A i \in Slots :
        (IMSEqualsModTime(i) /\ inv[i].req.range = NoRange)
        => (inv[i].status = 304 /\ inv[i].body = <<>>)

\* A GET of /media/test.txt (modified at 5.5 s) with If-Modified-Since 5 s
\* has returned 304.
C9_Witness ==
    \E i \in Slots :
        /\ IMSEqualsModTime(i) /\ inv[i].req.path = U_test
        /\ Target(i).mtime = <<5, 500>> /\ inv[i].req.ims = <<5>>
        /\ inv[i].status = 304 /\ inv[i].body = <<>>

\* C10: whenever an invocation has returned, it holds no open file handle,
\* whichever way it left: delivery, 304, 416, a failed read or a client
\* that went away.
C10_ClosedOnReturn ==
    \A i \in Slots : Done(i) => HandlesOf(i) = {}

\* An invocation whose client went away in mid-transfer has returned with a
\* partial body, and its handle is closed.
C10_Witness ==
    \E i \in Slots :
        /\ Done(i) /\ inv[i].file # 0 /\ inv[i].disconnected
        /\ inv[i].status = 200 /\ inv[i].body # <<>>
        /\ Len(inv[i].body) < Len(Target(i).data)
        /\ HandlesOf(i) = {}

(***************************************************************************)
(* C11 .. C20                                                              *)
(***************************************************************************)
\* Invocation i holds an open file.
Holding(i) == inv[i].pc \in {"mime", "serve", "copy", "close"}

\* The offset the body of invocation i starts at: the start of its range.
StartOf(i) == IF inv[i].req.range = NoRange THEN 0 ELSE inv[i].req.range.first

\* C11: with several invocations in flight at once, in every interleaving,
\* each invocation that has opened the file holds a handle of its own,
\* shared with no other invocation, whose position follows from its own
\* progress alone (the start of its range plus the bytes it has sent);
\* and every GET of the existing file returns success (200, or 206 for a
\* range) with exactly the file's bytes it asked for.
C11_OwnHandleSameContent ==
    \A i \in Slots :
        /\ Holding(i) =>
             /\ inv[i].file \in DOMAIN openFiles
             /\ openFiles[inv[i].file].owner = i
             /\ \A j \in Slots \ {i} : Holding(j) => inv[j].file # inv[i].file
             /\ inv[i].pc \in {"copy", "close"} =>
                  openFiles[inv[i].file].pos = StartOf(i) + Len(inv[i].body)
        /\ (Done(i) /\ inv[i].req.path = U_test) =>
             /\ inv[i].status = IF inv[i].req.range = NoRange THEN 200 ELSE 206
             /\ inv[i].body = SubSeq(HelloWorld, StartOf(i) + 1, Len(HelloWorld))

\* One invocation has returned the whole of /media/test.txt while another,
\* for the same file, is in the middle of copying a range of it through a
\* different handle.
C11_Witness ==
    \E i, j \in Slots :
        /\ i # j
        /\ inv[i].req.path = U_test /\ inv[j].req.path = U_test
        /\ Done(i) /\ inv[i].status = 200 /\ inv[i].body = HelloWorld
        /\ inv[j].pc = "copy" /\ inv[j].status = 206
        /\ inv[j].body = <<"W", "o", "r", "l">>
        /\ openFiles[inv[j].file].pos = 10

\* Invocation i opened its file: os.Open returned no error.
Opened(i) == inv[i].file # 0

\* C12 as amended: every response produced by the handler carries a status
\* in {200, 206, 304, 404, 412, 416, 500}; 404 is the answer to a failed
\* open and to nothing else, 412 is the answer to a precondition header
\* (If-Unmodified-Since) the file fails, and 500 occurs only after a
\* successful open.
C12_StatusCodes ==
    \A i \in Slots :
        (Done(i) /\ Handled(i)) =>
            /\ inv[i].status \in {200, 206, 304, 404, 412, 416, 500}
            /\ inv[i].status = 404 <=> ~Opened(i)
            /\ inv[i].status = 412 => inv[i].req.ius # NoIUS
            /\ inv[i].status = 500 => Opened(i)

\* C12 as stated: every response produced by the handler carries a status
\* in {200, 206, 304, 404, 416}, or 500 after a successful open.
C12_Original ==
    \A i \in Slots :
        (Done(i) /\ Handled(i)) =>
            \/ inv[i].status \in {200, 206, 304, 404, 416}
            \/ inv[i].status = 500 /\ Opened(i)

\* A GET of /media/test.txt (modified at 5.5 s) with If-Unmodified-Since
\* 4 s has returned 412 with an empty body.
C12_Witness ==
    \E i \in Slots :
        /\ Done(i) /\ Handled(i) /\ inv[i].req.path = U_test
        /\ inv[i].req.method = "GET" /\ inv[i].req.ius = <<4>>
        /\ inv[i].req.range = NoRange
        /\ inv[i].status = 412 /\ inv[i].body = <<>>

\* main has read flags and environment: the effective values are settled.
Configured == proc.pc \notin {"flags", "env"}

RootUnresolvable == Abs(proc.mediaDir, proc.launch.cwdOK).err

\* The configured port cannot be bound.
PortUnavailable == proc.port \in proc.launch.busy

\* C14: a process whose root directory cannot be resolved to an absolute
\* path gets no further than that step: it exits with a fatal log message
\* and a non-zero status, with no handler registered and no request ever
\* taken; a process whose port cannot be bound exits the same way at the
\* listen step; and only a process that is serving ever takes a request.
C14_FatalStartup ==
    /\ proc.pc = "exited" => (proc.exitCode # 0 /\ proc.fatal # "")
    /\ (proc.pc \notin {"flags", "env", "abs"} /\ RootUnresolvable) =>
           /\ proc.pc = "exited"
           /\ proc.fatal = "Invalid media directory"
           /\ ~proc.registered
    /\ (proc.pc \in {"serving", "exited"} /\ ~RootUnresolvable /\ PortUnavailable) =>
           proc.pc = "exited"
    /\ proc.pc # "serving" => \A i \in Slots : inv[i] = IdleSlot

\* Launched with the default relative root in a working directory that
\* cannot be determined, the process has exited with status 1 and the
\* message of main.go line 30, nothing registered, no request taken.
C14_Witness ==
    /\ proc.pc = "exited" /\ proc.exitCode = 1
    /\ proc.fatal = "Invalid media directory"
    /\ proc.mediaDir = DefaultMediaDir /\ ~proc.launch.cwdOK
    /\ ~proc.registered
    /\ \A i \in Slots : inv[i] = IdleSlot

IsPrefix(s, t) == Len(s) <= Len(t) /\ SubSeq(t, 1, Len(s)) = s

\* The steps of an invocation that opens its file, and of one that does not.
SuccessSteps == <<"resolve", "log", "open", "mimetype", "header", "serve", "close">>

FailureSteps == <<"resolve", "log", "open", "notfound">>

\* C15: the steps of an invocation occur in a fixed order.  The resolved
\* path is logged before the open is attempted; after a successful open
\* come the content-type resolution, the setting of the Content-Type
\* header and the delegation to ServeContent, in that order, and an
\* invocation that opened its file has, when it returns, taken every one
\* of them; after a failed open comes the 404 and nothing else.
C15_StepOrder ==
    \A i \in Slots :
        Handled(i) =>
            /\ inv[i].logged = inv[i].path
            /\ IsPrefix(inv[i].steps, SuccessSteps) \/ inv[i].steps = FailureSteps
            /\ Len(inv[i].steps) >= 2
            /\ Opened(i) => IsPrefix(inv[i].steps, SuccessSteps) /\ Len(inv[i].steps) >= 3
            /\ (Done(i) /\ Opened(i)) => inv[i].steps = SuccessSteps
            /\ (Done(i) /\ ~Opened(i)) => inv[i].steps = FailureSteps

\* A GET of /media/test.txt has returned 200 after all seven steps, the
\* resolved path /srv/media/test.txt having been logged.
C15_Witness ==
    \E i \in Slots :
        /\ Done(i) /\ inv[i].req.path = U_test /\ inv[i].status = 200
        /\ inv[i].steps = SuccessSteps
        /\ inv[i].logged = P_test

\* How many of the steps of invocation i are among S.
StepCount(i, S) == Cardinality({k \in DOMAIN inv[i].steps : inv[i].steps[k] \in S})

\* The steps that write the response's status: the mux's own reply, the
\* handler's 404, ServeContent.
StatusSteps == {"muxreply", "notfound", "serve"}

\* C16: every request is a single attempt with exactly one response
\* status.  An invocation attempts the open at most once and writes at
\* most one status; when it has returned it has written exactly one,
\* whatever went wrong (failed open, unsatisfiable range, not modified),
\* the process is still serving as before, and the next request can be
\* taken.
C16_SingleAttemptOneStatus ==
    /\ proc = ServingProc
    /\ \A i \in Slots :
        /\ StepCount(i, {"open"}) <= 1
        /\ StepCount(i, StatusSteps) <= 1
        /\ inv[i].status # 0 <=> StepCount(i, StatusSteps) = 1
        /\ Done(i) => (inv[i].status # 0 /\ ENABLED Finish(i))
    /\ \A i \in Sequential : Free(i) => (ENABLED HandlerCall(i) /\ ENABLED MuxServeHTTP(i))

\* A GET of the missing /media/no.txt has returned 404 after one open
\* attempt, with the process still serving.
C16_Witness ==
    \E i \in Slots :
        /\ Done(i) /\ inv[i].req.path = U_missing /\ inv[i].status = 404
        /\ StepCount(i, {"open"}) = 1 /\ StepCount(i, StatusSteps) = 1
        /\ proc.pc = "serving"

\* The body of invocation i is empty (nothing was sent yet, or there is
\* nothing to send) or a run of bytes of its file, starting where the
\* response says it starts (the start of Content-Range, else 0).
BodyIsPartOfFile(i) ==
    LET start == IF inv[i].status = 206 THEN inv[i].contentRange[1] ELSE 0
        d == Target(i).data
    IN
    \/ inv[i].body = <<>>
    \/ /\ start + Len(inv[i].body) <= Len(d)
       /\ inv[i].body = SubSeq(d, start + 1, start + Len(inv[i].body))

\* The outcomes of an invocation that has returned.
Streamed(i) == Opened(i) /\ inv[i].status \in {200, 206} /\ BodyIsPartOfFile(i)

NotFound(i) == ~Opened(i) /\ inv[i].status = 404 /\ inv[i].body = <<>>

AnsweredWithoutContent(i) ==
    Opened(i) /\ inv[i].status \in {304, 412, 416, 500} /\ inv[i].body = <<>>

\* C17 as amended: each handler invocation has exactly one of three
\* observable outcomes: the file is streamed (200 or 206, fully or
\* partially); the response is 404, the file not having been opened; or
\* the file was opened and ServeContent answered without sending any of it
\* (304, 412, 416 or 500).
C17_Outcomes ==
    \A i \in Slots :
        (Done(i) /\ Handled(i)) =>
            /\ Streamed(i) \/ NotFound(i) \/ AnsweredWithoutContent(i)
            /\ ~(Streamed(i) /\ NotFound(i))
            /\ ~(Streamed(i) /\ AnsweredWithoutContent(i))
            /\ ~(NotFound(i) /\ AnsweredWithoutContent(i))

\* C17 as stated: each handler invocation either streams the file (fully
\* or partially) or answers 404; stated for requests that do not name a
\* directory.
C17_Original ==
    \A i \in Slots :
        (Done(i) /\ Handled(i) /\ Target(i).kind # "dir") =>
            (Streamed(i) \/ NotFound(i))

\* A GET of /media/test.txt with Range bytes=0-4 and If-Modified-Since 5 s
\* has opened the file and returned 304 without sending any of it.
C17_Witness ==
    \E i \in Slots :
        /\ Done(i) /\ Handled(i) /\ inv[i].req.path = U_test
        /\ inv[i].req.range = Span(0, 4) /\ inv[i].req.ims = <<5>>
        /\ AnsweredWithoutContent(i) /\ inv[i].status = 304
        /\ "close" = inv[i].steps[Len(inv[i].steps)]

\* C18: no step of any handler invocation, whatever the method, path and
\* headers of its request, changes the file system (the set of files and
\* directories, their contents and times) or the root directory the
\* handler was built with.
C18_FilesystemUnchanged ==
    [][fs' = fs /\ proc'.absMediaDir = proc.absMediaDir]_vars

\* A POST of the missing /media/no.txt has returned 404; the file system is
\* as it was, without that file, and the root is still /srv/media.
C18_Witness ==
    \E i \in Slots :
        /\ Done(i) /\ Handled(i) /\ inv[i].req.method = "POST"
        /\ inv[i].req.path = U_missing /\ inv[i].status = 404
        /\ fs = BaseFS /\ inv[i].path \notin DOMAIN fs
        /\ proc.absMediaDir = MediaDir

\* C19: the handler never rejects a request because of its method.  No
\* response is 405; whether the file is opened and served depends on the
\* resolved path alone (opened exactly when os.Open succeeds on it), with
\* the same steps for every method; and a request of any method but HEAD
\* for a readable regular file, without Range or conditional headers and
\* with the client staying connected, returns 200 and the whole file.
C19_NoMethodRejection ==
    \A i \in Slots :
        (Done(i) /\ Handled(i)) =>
            /\ inv[i].status # 405
            /\ Opened(i) <=> OpenError(fs, inv[i].path) = ""
            /\ inv[i].steps = IF Opened(i) THEN SuccessSteps ELSE FailureSteps
            /\ (/\ inv[i].req.method # "HEAD" /\ NoHeaders(i)
                /\ Target(i).kind = "file" /\ Target(i).readable
                /\ ~inv[i].disconnected)
               => (inv[i].status = 200 /\ inv[i].body = Target(i).data)

\* A POST of /media/test.txt has been resolved, opened and served like a
\* GET: 200 with "Hello World".
C19_Witness ==
    \E i \in Slots :
        /\ Done(i) /\ inv[i].req.method = "POST" /\ inv[i].req.path = U_test
        /\ NoHeaders(i) /\ inv[i].steps = SuccessSteps
        /\ inv[i].status = 200 /\ inv[i].body = HelloWorld

\* The client of invocation i has gone away while the body is being copied.
DisconnectedMidStream(i) == inv[i].pc = "copy" /\ inv[i].disconnected

\* C20: when the client has disconnected while the file is being streamed,
\* the next step of the invocation ends the copy without reading from the
\* file or sending anything more, and, the handler's steps being taken
\* eventually, the invocation closes its file handle.
C20_DisconnectReleasesHandle ==
    /\ [][\A i \in Slots :
            DisconnectedMidStream(i) =>
                /\ inv'[i].pc = "close"
                /\ inv'[i].body = inv[i].body
                /\ openFiles' = openFiles]_vars
    /\ \A i \in Slots : DisconnectedMidStream(i) ~> (HandlesOf(i) = {})

\* The client of a GET of /media/test.txt went away after the first chunk:
\* the invocation has returned with only that chunk sent of the 11 bytes,
\* and no handle is open.
C20_Witness ==
    \E i \in Slots :
        /\ Done(i) /\ inv[i].disconnected /\ inv[i].req.path = U_test
        /\ inv[i].req.method = "GET" /\ NoHeaders(i)
        /\ inv[i].status = 200 /\ inv[i].sendLeft > 0
        /\ Len(inv[i].body) = ChunkSize
        /\ openFiles = <<>>

(***************************************************************************)
(* C21 .. C25                                                              *)
(***************************************************************************)
\* The first and last byte a Range header r asks for of a file of `size`
\* bytes, as served: the last byte is capped at the end of the file.
ServedRange(r, size) ==
    CASE r.kind = "span" -> <<r.first, Min(r.last, size - 1)>>
      [] r.kind = "from" -> <<r.first, size - 1>>
      [] r.kind = "suffix" -> <<size - Min(r.last, size), size - 1>>

\* C21: for a regular file that was opened, Content-Length equals the
\* file's size on a 200 response; on a 206 response it equals
\* end - start + 1 of the served range, which is the range the request
\* asked for (capped at the end of the file) and is announced by
\* Content-Range as "start-end/size"; and a client that stays connected,
\* the method not being HEAD, receives exactly Content-Length bytes.
C21_ContentLength ==
    \A i \in Slots :
        LET size == Len(Target(i).data)
            cr == inv[i].contentRange
        IN
        (Done(i) /\ Handled(i) /\ Opened(i) /\ Target(i).kind = "file") =>
            /\ inv[i].status = 200 => inv[i].contentLength = size
            /\ inv[i].status = 206 =>
                 /\ <<cr[1], cr[2]>> = ServedRange(inv[i].req.range, size)
                 /\ cr[3] = size
                 /\ inv[i].contentLength = cr[2] - cr[1] + 1
            /\ (/\ inv[i].status \in {200, 206} /\ inv[i].req.method # "HEAD"
                /\ ~inv[i].disconnected)
               => Len(inv[i].body) = inv[i].contentLength

\* "bytes=6-20" on the 11-byte "Hello World" has returned 206 with
\* Content-Range 6-10/11, Content-Length 5 and the 5 bytes "World".
C21_Witness ==
    \E i \in Slots :
        /\ Done(i) /\ inv[i].req.path = U_test /\ inv[i].req.method = "GET"
        /\ inv[i].req.range = Span(6, 20)
        /\ inv[i].status = 206 /\ inv[i].contentRange = <<6, 10, 11>>
        /\ inv[i].contentLength = 5
        /\ inv[i].body = <<"W", "o", "r", "l", "d">>

\* The response request r gets from the file system as it is: status,
\* Content-Type and body, computed from r, the root and the files alone.
ResponseTo(r) ==
    LET p == ResolvedPath(r.path) IN
    IF OpenError(fs, p) # ""
    THEN [status |-> 404, ctype |-> "text/plain; charset=utf-8", body |-> <<>>]
    ELSE LET node == Lookup(fs, p)
             h == ServeContentHead(r, node, ModTimeArg(node), MimeType(Filename(r.path)))
         IN
         [status |-> h.status, ctype |-> h.ctype,
          body |-> IF r.method = "HEAD" \/ node.kind # "file" THEN <<>>
                   ELSE SubSeq(node.data, h.sendFrom + 1, h.sendFrom + h.sendSize)]

\* The response invocation i has produced.
Response(i) == [status |-> inv[i].status, ctype |-> inv[i].ctype, body |-> inv[i].body]

\* The invocation of slot i has returned, its client still connected.
Delivered(i) == Done(i) /\ Handled(i) /\ ~inv[i].disconnected

\* C22: the response to a request depends only on the request and the file
\* system.  With requests in flight concurrently and others handled
\* before, two invocations that have returned for the same request, their
\* clients connected, have the same status, Content-Type and body, and the
\* response of every such invocation is the one its request gets from the
\* file system, whatever the other invocations are doing or have done.
C22_ResponseDependsOnRequestOnly ==
    /\ \A i, j \in Slots :
         (Delivered(i) /\ Delivered(j) /\ inv[i].req = inv[j].req)
         => Response(i) = Response(j)
    /\ \A i \in Slots : Delivered(i) => Response(i) = ResponseTo(inv[i].req)

\* Two invocations for "bytes=6-20" of /media/test.txt, in flight at the
\* same time, have both returned 206 with "World".
C22_Witness ==
    \E i, j \in Slots :
        /\ i # j /\ Delivered(i) /\ Delivered(j)
        /\ inv[i].req = inv[j].req /\ inv[i].req.path = U_test
        /\ inv[i].req.range = Span(6, 20)
        /\ Response(i) = Response(j)
        /\ inv[i].status = 206 /\ inv[j].body = <<"W", "o", "r", "l", "d">>

\* The handler was called with a URL path that does not begin with the
\* prefix "/media/".
CalledWithoutPrefix(i) == Handled(i) /\ ~HasPrefix(inv[i].req.path, MediaPrefix)

\* C23: when the handler is invoked with a URL path that does not begin
\* with the prefix, the request is not rejected.  The file name is the
\* whole URL path, the path opened is that name joined onto the root, and
\* the invocation goes on like any other: the file is opened exactly when
\* os.Open succeeds on that path, a failed open is a 404, and a GET without
\* Range or conditional headers of a readable regular file, the client
\* staying connected, returns 200 and the file.
C23_PathWithoutPrefix ==
    \A i \in Slots :
        CalledWithoutPrefix(i) =>
            /\ inv[i].filename = inv[i].req.path
            /\ inv[i].path = Join(proc.absMediaDir, inv[i].req.path)
            /\ IsPrefix(<<"resolve", "log">>, inv[i].steps)
            /\ Done(i) =>
                 /\ Opened(i) <=> OpenError(fs, inv[i].path) = ""
                 /\ inv[i].steps = IF Opened(i) THEN SuccessSteps ELSE FailureSteps
                 /\ ~Opened(i) => inv[i].status = 404
                 /\ (/\ inv[i].req.method = "GET" /\ NoHeaders(i)
                     /\ Target(i).kind = "file" /\ Target(i).readable
                     /\ ~inv[i].disconnected)
                    => (inv[i].status = 200 /\ inv[i].body = Target(i).data)

\* The handler, called with GET /test.txt, has opened /srv/media/test.txt
\* and returned 200 with "Hello World".
C23_Witness ==
    \E i \in Slots :
        /\ Done(i) /\ CalledWithoutPrefix(i) /\ inv[i].via = "direct"
        /\ inv[i].req.path = U_bare /\ inv[i].req.method = "GET"
        /\ inv[i].filename = U_bare /\ inv[i].path = P_test
        /\ inv[i].status = 200 /\ inv[i].body = HelloWorld

\* Invocation i is in flight: entered and not yet returned.
InFlight(i) == inv[i].pc \notin {"idle", "done"}

\* C24: each invocation opens at most one file handle, at most once, and
\* closes it exactly once: it holds a handle exactly from its successful
\* open to its close, and has closed it once when it returns.  Hence the
\* open handles are at most as many as the invocations in flight, and
\* there is none when no invocation is in flight.
C24_HandleCount ==
    /\ \A i \in Slots :
         /\ Cardinality(HandlesOf(i)) <= 1
         /\ StepCount(i, {"open"}) <= 1
         /\ StepCount(i, {"close"}) <= 1
         /\ HandlesOf(i) # {} <=> Holding(i)
         /\ HandlesOf(i) # {} => HandlesOf(i) = {inv[i].file}
         /\ (Done(i) /\ Opened(i)) => StepCount(i, {"close"}) = 1
         /\ (Done(i) /\ ~Opened(i)) => StepCount(i, {"close"}) = 0
    /\ Cardinality(DOMAIN openFiles) <= Cardinality({i \in Slots : InFlight(i)})
    /\ (\A i \in Slots : ~InFlight(i)) => openFiles = <<>>

\* Every slot has an invocation in flight that has opened /media/test.txt,
\* and there are as many open handles as slots.
C24_Witness ==
    /\ \A i \in Slots : InFlight(i) /\ Holding(i) /\ inv[i].req.path = U_test
    /\ Cardinality(DOMAIN openFiles) = MaxInv

====
